---- MODULE Spec2Model ----
(***************************************************************************)
(* Ultra Premium Commerce API: the product endpoints of src/main.py and    *)
(* the Product schema of src/schemas.py, over a document store.            *)
(*                                                                         *)
(* The "product" collection is a sequence of documents in insertion order. *)
(* Every request handler is a process; a handler that makes two store      *)
(* operations (create_product: find_one, then insert; seed_demo_products:  *)
(* count_documents, then two inserts) is split between them, since other   *)
(* handlers may run in between.                                            *)
(*                                                                         *)
(* Values are tagged: text, number, null (Python None), absent (a field or *)
(* query parameter the request does not carry), oid (a store ObjectId).    *)
(* Prices are whole dollars; ratings are counted in tenths (4.9 is 49).    *)
(* Of the Product fields the model keeps the ones that are required or     *)
(* carry a constraint; description, images, model_url, variants, badges,   *)
(* in_stock and specs are unconstrained and pass through unchanged.        *)
(***************************************************************************)
EXTENDS Integers, Sequences, FiniteSets, TLC

VARIABLES
    db,      \* the connection handle imported from database: "None" or "Database"
    col,     \* the documents of db["product"], in insertion order
    pc,      \* pc[h]: where handler h stands
    pending, \* pending[h]: the validated payload a create_product in flight holds
    last,    \* the most recent request with its response
    created, \* every identifier create_product has returned, with its payload
    raw,     \* the record handed to Product validation
    verdict  \* the outcome of that validation

vars == <<db, col, pc, pending, last, created, raw, verdict>>

\* ---------------------------------------------------------------- bounds
NumHandlers == 2
MaxDocs == 4

Handlers == 1..NumHandlers

\* ---------------------------------------------------------------- values
Str(s) == [t |-> "str", s |-> s, n |-> 0]
Num(k) == [t |-> "num", s |-> "", n |-> k]
Null == [t |-> "null", s |-> "", n |-> 0]
Absent == [t |-> "absent", s |-> "", n |-> 0]
ObjectId(k) == [t |-> "oid", s |-> "", n |-> k]

HexDigits == <<"0", "1", "2", "3", "4", "5", "6", "7", "8", "9", "a", "b", "c", "d", "e", "f">>

RECURSIVE ToHex(_, _)
ToHex(k, width) ==
    IF width = 0 THEN "" ELSE ToHex(k \div 16, width - 1) \o HexDigits[(k % 16) + 1]

\* str(ObjectId): the 12 bytes as 24 hexadecimal digits, tabulated for the
\* identifiers the store can assign
HexOf == [k \in 0..(MaxDocs + 1) |-> ToHex(k, 24)]

ObjectIdStr(o) == Str(HexOf[o.n])

NoDoc == <<>>

\* Python truthiness of a find_one result: None and {} are falsy
Truthy(doc) == DOMAIN doc # {}

\* ---------------------------------------------------------------- schemas.py
DefaultRating == 50
MaxRating == 50
DefaultReviewCount == 0

Fields == {"title", "slug", "price", "compare_at_price", "category", "rating", "review_count"}
TextFields == {"title", "slug", "category"}

Get(r, f) == IF f \in DOMAIN r THEN r[f] ELSE Absent

\* Field(..., ge=, le=): whether value v is accepted for field f
FieldOk(f, v) ==
    CASE f \in TextFields -> v.t = "str"
      [] f = "price" -> v.t = "num" /\ v.n >= 0
      [] f = "compare_at_price" -> v.t \in {"absent", "null"} \/ (v.t = "num" /\ v.n >= 0)
      [] f = "rating" -> v.t = "absent" \/ (v.t = "num" /\ v.n >= 0 /\ v.n <= MaxRating)
      [] f = "review_count" -> v.t = "absent" \/ (v.t = "num" /\ v.n >= 0)

\* the fields a pydantic ValidationError names for record r
FieldErrors(r) == {f \in Fields : ~FieldOk(f, Get(r, f))}

\* the validated model: defaults filled in
Product(r) ==
    [f \in Fields |->
        CASE f = "compare_at_price" /\ Get(r, f).t = "absent" -> Null
          [] f = "rating" /\ Get(r, f).t = "absent" -> Num(DefaultRating)
          [] f = "review_count" /\ Get(r, f).t = "absent" -> Num(DefaultReviewCount)
          [] OTHER -> Get(r, f)]

\* ---------------------------------------------------------------- the store
DefaultLimit == 20

Min(a, b) == IF a < b THEN a ELSE b

\* collection.find_one({"slug": s}): the first match in natural order, or None
FindOne(c, s) ==
    LET hits == {i \in 1..Len(c) : c[i]["slug"] = s}
    IN IF hits = {} THEN NoDoc ELSE c[CHOOSE i \in hits : \A j \in hits : i <= j]

\* whether some document of c has slug s
SlugIn(c, s) == \E i \in 1..Len(c) : c[i]["slug"] = s

\* collection.count_documents({})
CountDocuments(c) == Len(c)

\* insert_one: the store assigns the identifier; the collection only grows,
\* so the next sequence number is fresh
InsertedDoc(c, data) == ("_id" :> ObjectId(Len(c) + 1)) @@ data

\* create_document(collection_name, data): the collection afterwards
create_document(c, data) == Append(c, InsertedDoc(c, data))

\* create_document's return value: the inserted identifier as text
create_document_id(c, data) == ObjectIdStr(InsertedDoc(c, data)["_id"])

\* get_documents(collection_name, {}, limit): up to limit documents in natural
\* order; limit unspecified means 20; for limit <= 0 the result is
\* implementer-defined, here any prefix (k documents)
get_documents(c, limit, k) ==
    LET n == CASE limit.t = "null" -> Min(DefaultLimit, Len(c))
               [] limit.t = "num" /\ limit.n > 0 -> Min(limit.n, Len(c))
               [] OTHER -> k
    IN SubSeq(c, 1, n)

\* ---------------------------------------------------------------- main.py
HttpStatus(kind) ==
    CASE kind = "ok" -> 200
      [] kind = "DuplicateSlug" -> 400
      [] kind = "NotFound" -> 404
      [] kind = "ValidationError" -> 422
      [] OTHER -> 500

NoRequest ==
    [op |-> "none", slug |-> Null, limit |-> Null, raw |-> <<>>,
     kind |-> "", status |-> 0, msg |-> "", docs |-> <<>>, id |-> Null, errs |-> {},
     models |-> {}]

Response(op, kind) ==
    [NoRequest EXCEPT !.op = op, !.kind = kind, !.status = HttpStatus(kind)]

\* d["id"] = str(d["_id"]): the native identifier copied, not popped
PopIdKept(d) == ("id" :> ObjectIdStr(d["_id"])) @@ d

\* d["id"] = str(d.pop("_id"))
PopId(d) == ("id" :> ObjectIdStr(d["_id"])) @@ [f \in DOMAIN d \ {"_id"} |-> d[f]]

\* list_products, lines 78-80: the rename is applied to documents that have "_id"
Normalize(d) == IF "_id" \in DOMAIN d THEN PopId(d) ELSE d

\* list_products, line 75: an absent query parameter takes the default
LimitParam(q) == IF q.t = "absent" THEN Num(DefaultLimit) ELSE q

\* get_documents called without the limit
ListLimitArgDropped(limit) == Null

\* list_products, line 76: the limit handed to get_documents
ListLimitArg(limit) == limit

\* get_product without the "if not doc" guard: None.pop raises
GetOutcomeUnguarded(c, s) ==
    IF db = "None" THEN "TypeError"
    ELSE IF ~Truthy(FindOne(c, s)) THEN "AttributeError"
    ELSE "ok"

\* get_product, lines 86-88
GetOutcome(c, s) ==
    IF db = "None" THEN "TypeError"
    ELSE IF ~Truthy(FindOne(c, s)) THEN "NotFound"
    ELSE "ok"

\* the slug check left out
SlugTakenNever(c, s) == FALSE

\* create_product, lines 96-97
SlugTaken(c, s) == Truthy(FindOne(c, s))

\* create_product taking the raw body and validating after the slug check
CreateOutcomeSlugFirst(r, c) ==
    IF db = "None" THEN "TypeError"
    ELSE IF SlugTaken(c, Get(r, "slug")) THEN "DuplicateSlug"
    ELSE IF FieldErrors(r) # {} THEN "ValidationError"
    ELSE "insert"

\* create_product: the framework validates the body against ProductCreate
\* before the handler body runs; then the slug check
CreateOutcome(r, c) ==
    IF FieldErrors(r) # {} THEN "ValidationError"
    ELSE IF db = "None" THEN "TypeError"
    ELSE IF SlugTaken(c, Product(r)["slug"]) THEN "DuplicateSlug"
    ELSE "insert"

\* the count guard reading the handle the wrong way round
SeedCountInverted(c) == IF db = "None" THEN CountDocuments(c) ELSE 0

\* seed_demo_products, line 105
SeedCount(c) == IF db # "None" THEN CountDocuments(c) ELSE 0

SpecterSlug == Str("specter-series-x1")
NebulaSlug == Str("nebula-pro-v")

\* seed_demo_products, lines 109-154
Demo ==
    << [title |-> Str("Specter Series X1"), slug |-> SpecterSlug, price |-> Num(1299),
        compare_at_price |-> Num(1499), category |-> Str("hardware"),
        rating |-> Num(49), review_count |-> Num(312)],
       [title |-> Str("Nebula Pro V"), slug |-> NebulaSlug, price |-> Num(999),
        compare_at_price |-> Num(1199), category |-> Str("hardware"),
        rating |-> Num(48), review_count |-> Num(198)] >>

\* ---------------------------------------------------------------- inputs
\* request bodies for POST /api/products
Payloads ==
    { [title |-> Str("Alpha"), slug |-> Str("s1"), price |-> Num(10),
       compare_at_price |-> Absent, category |-> Str("c"), rating |-> Absent,
       review_count |-> Absent],
      [title |-> Str("Copy"), slug |-> SpecterSlug, price |-> Num(5),
       compare_at_price |-> Null, category |-> Str("c"), rating |-> Num(30),
       review_count |-> Num(1)],
      [title |-> Str("Bad"), slug |-> Str("s1"), price |-> Num(10),
       compare_at_price |-> Absent, category |-> Str("c"), rating |-> Num(70),
       review_count |-> Absent],
      [title |-> Str("Worse"), slug |-> SpecterSlug, price |-> Num(-1),
       compare_at_price |-> Absent, category |-> Str("c"), rating |-> Absent,
       review_count |-> Absent] }

Slugs == {Str("s1"), SpecterSlug, Str("zz")}

Limits == {Absent, Null, Num(-1), Num(0), Num(1), Num(2)}

\* records handed to validation alone
RawRecords ==
    { [title |-> a, slug |-> b, price |-> c, compare_at_price |-> d, category |-> e,
       rating |-> f, review_count |-> g] :
        a \in {Absent, Str(""), Str("T"), Num(1)},
        b \in {Absent, Str(""), Str("s1")},
        c \in {Absent, Null, Num(-1), Num(0), Num(1299)},
        d \in {Absent, Null, Num(-1), Num(1499)},
        e \in {Absent, Str(""), Str("c")},
        f \in {Absent, Num(-1), Num(0), Num(50), Num(70)},
        g \in {Absent, Num(-1), Num(0), Num(312)} }

NoVerdict == [done |-> FALSE, errs |-> {}, model |-> <<>>]

\* ---------------------------------------------------------------- actions
\* documents the handlers in flight will still insert
Owed(h) ==
    CASE pc[h] = "create_insert" -> 1
      [] pc[h] = "seed_insert_1" -> 2
      [] pc[h] = "seed_insert_2" -> 1
      [] OTHER -> 0

RECURSIVE OwedUpTo(_)
OwedUpTo(h) == IF h = 0 THEN 0 ELSE Owed(h) + OwedUpTo(h - 1)

Room(n) == Len(col) + OwedUpTo(NumHandlers) + n <= MaxDocs

Init ==
    /\ db \in {"None", "Database"}
    /\ col = <<>>
    /\ pc = [h \in Handlers |-> "idle"]
    /\ pending = [h \in Handlers |-> <<>>]
    /\ last = NoRequest
    /\ created = {}
    /\ raw = <<>>
    /\ verdict = NoVerdict

\* GET /schema
get_schema(h) ==
    /\ pc[h] = "idle"
    /\ last' = [Response("get_schema", "ok") EXCEPT !.models = {"product"}]
    /\ UNCHANGED <<db, col, pc, pending, created, raw, verdict>>

\* GET /api/products?limit=q
list_products(h, q, k) ==
    /\ pc[h] = "idle"
    /\ LET limit == LimitParam(q)
           arg == ListLimitArg(limit)
           free == arg.t = "num" /\ arg.n <= 0
       IN /\ k = IF free /\ db # "None" THEN k ELSE 0
          /\ last' =
               IF db = "None"
               THEN [Response("list_products", "StorageUnavailable") EXCEPT !.limit = limit]
               ELSE [Response("list_products", "ok") EXCEPT
                        !.limit = limit,
                        !.docs = LET docs == get_documents(col, arg, k)
                                 IN [i \in 1..Len(docs) |-> Normalize(docs[i])]]
    /\ UNCHANGED <<db, col, pc, pending, created, raw, verdict>>

\* GET /api/products/{slug}
get_product(h, s) ==
    /\ pc[h] = "idle"
    /\ LET kind == GetOutcome(col, s)
       IN last' = [Response("get_product", kind) EXCEPT
                      !.slug = s,
                      !.msg = IF kind = "NotFound" THEN "Product not found" ELSE "",
                      !.docs = IF kind = "ok" THEN <<PopId(FindOne(col, s))>> ELSE <<>>]
    /\ UNCHANGED <<db, col, pc, pending, created, raw, verdict>>

\* POST /api/products: validation and the slug check
create_product(h, r) ==
    /\ pc[h] = "idle"
    /\ LET kind == CreateOutcome(r, col)
       IN IF kind = "insert"
          THEN /\ Room(1)
               /\ pc' = [pc EXCEPT ![h] = "create_insert"]
               /\ pending' = [pending EXCEPT ![h] = r]
               /\ UNCHANGED last
          ELSE /\ last' = [Response("create_product", kind) EXCEPT
                              !.raw = r,
                              !.errs = FieldErrors(r),
                              !.msg = IF kind = "DuplicateSlug"
                                      THEN "Slug already exists" ELSE ""]
               /\ UNCHANGED <<pc, pending>>
    /\ UNCHANGED <<db, col, created, raw, verdict>>

\* create_insert with the slug checked again at the insert (a conditional insert)
create_insert_if_free(h) ==
    /\ pc[h] = "create_insert"
    /\ IF SlugIn(col, Product(pending[h])["slug"])
       THEN /\ last' = [Response("create_product", "DuplicateSlug") EXCEPT
                           !.raw = pending[h]]
            /\ UNCHANGED <<col, created>>
       ELSE /\ col' = create_document(col, Product(pending[h]))
            /\ last' = [Response("create_product", "ok") EXCEPT
                           !.raw = pending[h],
                           !.id = create_document_id(col, Product(pending[h]))]
            /\ created' = created \cup
                 {[id |-> create_document_id(col, Product(pending[h])),
                   raw |-> pending[h], fresh |-> TRUE]}
    /\ pc' = [pc EXCEPT ![h] = "idle"]
    /\ pending' = [pending EXCEPT ![h] = <<>>]
    /\ UNCHANGED <<db, raw, verdict>>

\* POST /api/products: create_document and the response
create_insert(h) ==
    /\ pc[h] = "create_insert"
    /\ col' = create_document(col, Product(pending[h]))
    /\ last' = [Response("create_product", "ok") EXCEPT
                   !.raw = pending[h],
                   !.id = create_document_id(col, Product(pending[h]))]
    /\ pc' = [pc EXCEPT ![h] = "idle"]
    /\ pending' = [pending EXCEPT ![h] = <<>>]
    /\ created' = created \cup
         {[id |-> create_document_id(col, Product(pending[h])), raw |-> pending[h],
           fresh |-> ~SlugIn(col, Product(pending[h])["slug"])]}
    /\ UNCHANGED <<db, raw, verdict>>

\* POST /seed: the count
seed_demo_products(h) ==
    /\ pc[h] = "idle"
    /\ IF SeedCount(col) > 0
       THEN /\ last' = [Response("seed_demo_products", "ok") EXCEPT
                           !.msg = "Products already present"]
            /\ UNCHANGED pc
       ELSE /\ Room(2)
            /\ pc' = [pc EXCEPT ![h] = "seed_insert_1"]
            /\ UNCHANGED last
    /\ UNCHANGED <<db, col, pending, created, raw, verdict>>

\* seed_insert that skips a demo product whose slug is already stored (an upsert)
seed_insert_if_missing(h, i) ==
    /\ pc[h] = IF i = 1 THEN "seed_insert_1" ELSE "seed_insert_2"
    /\ IF db = "None"
       THEN /\ last' = Response("seed_demo_products", "StorageUnavailable")
            /\ pc' = [pc EXCEPT ![h] = "idle"]
            /\ UNCHANGED col
       ELSE /\ col' = IF SlugIn(col, Demo[i]["slug"]) THEN col
                      ELSE create_document(col, Demo[i])
            /\ IF i = Len(Demo)
               THEN /\ last' = [Response("seed_demo_products", "ok") EXCEPT
                                   !.msg = "Seeded demo products"]
                    /\ pc' = [pc EXCEPT ![h] = "idle"]
               ELSE /\ pc' = [pc EXCEPT ![h] = "seed_insert_2"]
                    /\ UNCHANGED last
    /\ UNCHANGED <<db, pending, created, raw, verdict>>

\* POST /seed: create_document of demo product i, and the response after the last
seed_insert(h, i) ==
    /\ pc[h] = IF i = 1 THEN "seed_insert_1" ELSE "seed_insert_2"
    /\ IF db = "None"
       THEN /\ last' = Response("seed_demo_products", "StorageUnavailable")
            /\ pc' = [pc EXCEPT ![h] = "idle"]
            /\ UNCHANGED col
       ELSE /\ col' = create_document(col, Demo[i])
            /\ IF i = Len(Demo)
               THEN /\ last' = [Response("seed_demo_products", "ok") EXCEPT
                                   !.msg = "Seeded demo products"]
                    /\ pc' = [pc EXCEPT ![h] = "idle"]
               ELSE /\ pc' = [pc EXCEPT ![h] = "seed_insert_2"]
                    /\ UNCHANGED last
    /\ UNCHANGED <<db, pending, created, raw, verdict>>

Step(h) ==
    \/ get_schema(h)
    \/ \E q \in Limits, k \in 0..Len(col) : list_products(h, q, k)
    \/ \E s \in Slugs : get_product(h, s)
    \/ \E r \in Payloads : create_product(h, r)
    \/ create_insert(h)
    \/ seed_demo_products(h)
    \/ \E i \in 1..Len(Demo) : seed_insert(h, i)

\* requests are handled independently: any handler may take its next step
Next == \E h \in Handlers : Step(h)

Spec == Init /\ [][Next]_vars

\* requests handled one at a time: a handler steps only while no other is in flight
Quiet(h) == \A g \in Handlers \ {h} : pc[g] = "idle"

NextSeq ==
    \/ \E h \in Handlers : Quiet(h) /\ get_schema(h)
    \/ \E h \in Handlers : Quiet(h) /\ \E q \in Limits, k \in 0..Len(col) : list_products(h, q, k)
    \/ \E h \in Handlers : Quiet(h) /\ \E s \in Slugs : get_product(h, s)
    \/ \E h \in Handlers : Quiet(h) /\ \E r \in Payloads : create_product(h, r)
    \/ \E h \in Handlers : Quiet(h) /\ create_insert(h)
    \/ \E h \in Handlers : Quiet(h) /\ seed_demo_products(h)
    \/ \E h \in Handlers : Quiet(h) /\ \E i \in 1..Len(Demo) : seed_insert(h, i)

SpecSeq == Init /\ [][NextSeq]_vars

\* Product validation alone
InitValidate ==
    /\ db = "None"
    /\ col = <<>>
    /\ pc = [h \in Handlers |-> "idle"]
    /\ pending = [h \in Handlers |-> <<>>]
    /\ last = NoRequest
    /\ created = {}
    /\ raw \in RawRecords
    /\ verdict = NoVerdict

validate ==
    /\ ~verdict.done
    /\ verdict' = [done |-> TRUE, errs |-> FieldErrors(raw),
                   model |-> IF FieldErrors(raw) = {} THEN Product(raw) ELSE <<>>]
    /\ UNCHANGED <<db, col, pc, pending, last, created, raw>>

SpecValidate == InitValidate /\ [][validate]_vars

\* ---------------------------------------------------------------- properties
SlugsOf(c) == [i \in 1..Len(c) |-> c[i]["slug"]]

HasDuplicateSlug(c) == \E i, j \in 1..Len(c) : i < j /\ c[i]["slug"] = c[j]["slug"]

\* the Product fields of stored document d are those of validated model m
SameProduct(d, m) == \A f \in Fields : d[f] = m[f]

\* a create_product step of payload r that answered at once
CreateAnswered(r) ==
    /\ last'.op = "create_product" /\ last'.raw = r
    /\ \E h \in Handlers : pc'[h] = "idle" /\ create_product(h, r)

\* a create_product step of handler h that passed validation and the slug check
CreatePassed(h) ==
    /\ pc[h] = "idle" /\ pc'[h] = "create_insert"
    /\ create_product(h, pending'[h])

\* a get_product step for slug s
GetStep(s) ==
    /\ last'.op = "get_product" /\ last'.slug = s
    /\ \E h \in Handlers : get_product(h, s)

\* C1: with requests handled one at a time, a createProduct whose slug a stored
\* product already holds answers DuplicateSlug (400) and inserts nothing, a
\* createProduct whose slug is free inserts one product and answers 200, and no
\* two stored products ever share a slug.
C1_DuplicateRejected ==
    /\ \A r \in Payloads :
          (CreateAnswered(r) /\ FieldErrors(r) = {} /\ SlugIn(col, r["slug"]))
              => /\ last'.kind = "DuplicateSlug" /\ last'.status = 400
                 /\ col' = col /\ pc' = pc
    /\ \A h \in Handlers :
          CreatePassed(h) => ~SlugIn(col, pending'[h]["slug"]) /\ col' = col

C1_FirstAccepted ==
    \A r \in Payloads :
        (CreateAnswered(r) /\ FieldErrors(r) = {} /\ db # "None")
            => SlugIn(col, r["slug"])

C1_InsertsOne ==
    \A h \in Handlers :
        (pc[h] = "create_insert" /\ create_insert(h))
            => /\ Len(col') = Len(col) + 1
               /\ SubSeq(col', 1, Len(col)) = col
               /\ col'[Len(col')]["slug"] = pending[h]["slug"]
               /\ last'.kind = "ok" /\ last'.status = 200

C1_SequentialSlugUnique ==
    /\ [](~HasDuplicateSlug(col))
    /\ [][C1_DuplicateRejected /\ C1_FirstAccepted /\ C1_InsertsOne]_vars

\* C1 witness: a duplicate was rejected after a seed and a first create
C1_Witness ==
    /\ last.op = "create_product" /\ last.kind = "DuplicateSlug"
    /\ last.raw["slug"] = Str("s1")
    /\ Len(col) = 3

\* C2: a create_product handler that passed the slug check inserts without
\* looking again: when the slug has been taken in the meantime (by a concurrent
\* handler that passed the same check), its insert still succeeds and leaves two
\* stored products with the same slug.
C2_RaceStep ==
    \A h \in Handlers :
        (pc[h] = "create_insert" /\ SlugIn(col, pending[h]["slug"]) /\ create_insert(h))
            => /\ Len(col') = Len(col) + 1
               /\ col'[Len(col')]["slug"] = pending[h]["slug"]
               /\ HasDuplicateSlug(col')
               /\ last'.kind = "ok" /\ last'.status = 200

C2_BothPass ==
    \A h, g \in Handlers :
        (h # g /\ pc[h] = "create_insert" /\ pc[g] = "create_insert"
            /\ pending[h]["slug"] = pending[g]["slug"] /\ create_insert(h))
            => pc'[g] = "create_insert" /\ SlugIn(col', pending[g]["slug"])

C2_CheckThenInsertRace == [][C2_RaceStep /\ C2_BothPass]_vars

\* C2 witness: two createProduct requests for slug "s1" both answered 200 and
\* both documents are stored
C2_Witness ==
    /\ Cardinality({e \in created : e.raw["slug"] = Str("s1")}) = 2
    /\ \E i, j \in 1..Len(col) :
          i < j /\ col[i]["slug"] = Str("s1") /\ col[j]["slug"] = Str("s1")

\* C3: with requests handled one at a time, a seed that finds the collection
\* non-empty changes nothing and answers "Products already present"; a seed on
\* the empty collection of a connected store goes on to insert, and when it
\* answers "Seeded demo products" the collection holds exactly the two demo
\* products, "specter-series-x1" then "nebula-pro-v".
C3_NoOp ==
    (Len(col) >= 1 /\ \E h \in Handlers : seed_demo_products(h))
        => /\ col' = col /\ pc' = pc
           /\ last'.op = "seed_demo_products" /\ last'.status = 200
           /\ last'.msg = "Products already present"

C3_Starts ==
    \A h \in Handlers :
        (Len(col) = 0 /\ db # "None" /\ seed_demo_products(h))
            => pc'[h] = "seed_insert_1" /\ col' = col

C3_First ==
    \A h \in Handlers :
        (pc[h] = "seed_insert_1" /\ db # "None" /\ seed_insert(h, 1))
            => pc'[h] = "seed_insert_2"

C3_Seeded ==
    \A h \in Handlers :
        (pc[h] = "seed_insert_2" /\ seed_insert(h, 2))
            => /\ SlugsOf(col') = <<SpecterSlug, NebulaSlug>>
               /\ \A i \in 1..2 : SameProduct(col'[i], Demo[i])
               /\ last'.op = "seed_demo_products" /\ last'.status = 200
               /\ last'.msg = "Seeded demo products"
               /\ pc'[h] = "idle"

C3_SeedIdempotent == [][C3_NoOp /\ C3_Starts /\ C3_First /\ C3_Seeded]_vars

\* C3 witness: a second seed answered the no-op on exactly the two demo products
C3_Witness ==
    /\ last.op = "seed_demo_products" /\ last.msg = "Products already present"
    /\ SlugsOf(col) = <<SpecterSlug, NebulaSlug>>

\* C4: a seed handler that counted zero inserts both demo products whatever the
\* collection holds by then: when another first-time seed has inserted in the
\* meantime, its inserts still go through and the demo slug is stored twice.
C4_RaceStep ==
    \A h \in Handlers, i \in 1..Len(Demo) :
        (pc[h] \in {"seed_insert_1", "seed_insert_2"} /\ SlugIn(col, Demo[i]["slug"])
            /\ seed_insert(h, i))
            => /\ Len(col') = Len(col) + 1
               /\ SameProduct(col'[Len(col')], Demo[i])
               /\ HasDuplicateSlug(col')

C4_BothCountZero ==
    \A h, g \in Handlers :
        (h # g /\ pc[h] = "seed_insert_1" /\ pc[g] = "seed_insert_1" /\ db # "None"
            /\ seed_insert(h, 1))
            => pc'[g] = "seed_insert_1" /\ SlugIn(col', SpecterSlug)

C4_DoubleSeedRace == [][C4_RaceStep /\ C4_BothCountZero]_vars

\* C4 witness: four documents, each demo slug twice, after two concurrent seeds
C4_Witness ==
    /\ Len(col) = 4
    /\ \A s \in {SpecterSlug, NebulaSlug} :
          Cardinality({i \in 1..Len(col) : col[i]["slug"] = s}) = 2
    /\ created = {}
    /\ last.op = "seed_demo_products" /\ last.msg = "Seeded demo products"

\* C5: a createProduct with a valid payload whose slug is free is accepted and
\* answers 200 with a non-empty text identifier; a later getProductBySlug with
\* that slug returns the payload's Product fields (defaults filled in), an `id`
\* equal to the identifier createProduct returned, and no `_id`.
C5_Accepted ==
    \A r \in Payloads :
        (CreateAnswered(r) /\ ~SlugIn(col, r["slug"]))
            => (FieldErrors(r) # {} \/ db = "None") /\ last'.kind # "ok"

C5_Returned ==
    \A h \in Handlers :
        (pc[h] = "create_insert" /\ create_insert(h))
            => /\ last'.op = "create_product" /\ last'.kind = "ok" /\ last'.status = 200
               /\ last'.id.t = "str" /\ Len(last'.id.s) > 0
               /\ \A e \in created : e.id # last'.id
               /\ \E e \in created' : e.id = last'.id /\ e.raw = pending[h]

C5_Found ==
    \A s \in Slugs :
        (GetStep(s) /\ \E e \in created : e.raw["slug"] = s)
            => last'.kind = "ok" /\ last'.status = 200 /\ Len(last'.docs) = 1

C5_Equivalent ==
    (last.op = "get_product" /\ last.kind = "ok")
        => \A e \in created :
              (e.raw["slug"] = last.slug /\ e.fresh)
                  => LET d == last.docs[1]
                     IN /\ DOMAIN d = Fields \cup {"id"}
                        /\ d["id"] = e.id
                        /\ d["id"].t = "str" /\ Len(d["id"].s) > 0
                        /\ \A f \in Fields :
                              d[f] = IF e.raw[f].t # "absent" THEN e.raw[f]
                                     ELSE Product(e.raw)[f]

C5_CreateThenGet ==
    /\ []C5_Equivalent
    /\ [][C5_Accepted /\ C5_Returned /\ C5_Found]_vars

\* C5 witness: a product created on a free slug, with defaulted fields, was fetched
C5_Witness ==
    /\ last.op = "get_product" /\ last.kind = "ok" /\ last.slug = Str("s1")
    /\ \E e \in created : e.raw["slug"] = Str("s1") /\ e.fresh /\ e.raw["rating"] = Absent
    /\ last.docs[1]["rating"] = Num(DefaultRating)

\* C6 as stated: the slug check comes first, so a payload whose slug is stored
\* is answered DuplicateSlug (400) whatever its other fields, and
\* ValidationError (422) only when the slug is free.
C6_SlugCheckFirst ==
    [][\A r \in Payloads :
          CreateAnswered(r)
              => /\ SlugIn(col, r["slug"])
                    => last'.kind = "DuplicateSlug" /\ last'.status = 400
                 /\ last'.kind = "ValidationError" => ~SlugIn(col, r["slug"])]_vars

\* C6 amended: validation comes first: a payload that violates the schema is
\* answered ValidationError (422) whether or not its slug is stored, and
\* DuplicateSlug (400) is answered only to a valid payload whose slug is stored.
C6_ValidationFirst ==
    [][/\ \A r \in Payloads :
             /\ (CreateAnswered(r) /\ FieldErrors(r) # {})
                   => /\ pc' = pc /\ col' = col
                      /\ last'.kind = "ValidationError" /\ last'.status = 422
                      /\ last'.errs = FieldErrors(r)
             /\ (last'.kind = "DuplicateSlug" /\ CreateAnswered(r))
                   => /\ FieldErrors(r) = {} /\ SlugIn(col, r["slug"])
                      /\ last'.status = 400 /\ col' = col
       /\ \A h \in Handlers :
             CreatePassed(h)
                 => FieldErrors(pending'[h]) = {} /\ ~SlugIn(col, pending'[h]["slug"])]_vars

\* C6 witness: an invalid payload carrying a stored slug was answered 422
C6_Witness ==
    /\ last.op = "create_product" /\ last.kind = "ValidationError" /\ last.status = 422
    /\ last.errs = {"price"}
    /\ SlugIn(col, last.raw["slug"])

\* the constraints as the data model words them: text fields non-empty
Compliant(f, v) ==
    CASE f \in TextFields -> v.t = "str" /\ v.s # ""
      [] f = "price" -> v.t = "num" /\ v.n >= 0
      [] f = "compare_at_price" -> v.t \in {"absent", "null"} \/ (v.t = "num" /\ v.n >= 0)
      [] f = "rating" -> v.t = "absent" \/ (v.t = "num" /\ v.n >= 0 /\ v.n <= 50)
      [] f = "review_count" -> v.t = "absent" \/ (v.t = "num" /\ v.n >= 0)

\* C7: validation names exactly the fields that violate their constraint
\* (title, slug, category non-empty text; price >= 0; compare_at_price absent or
\* >= 0; rating in [0, 5]; review_count >= 0), and accepts a record if and only
\* if none does.
C7_ValidationMatchesConstraints ==
    verdict.done
        => /\ verdict.errs = {f \in Fields : ~Compliant(f, raw[f])}
           /\ (verdict.model # <<>>) <=> (\A f \in Fields : Compliant(f, raw[f]))

\* C8 as stated: in every state, getProductBySlug for a slug no stored product
\* has is answered NotFound (404) and leaves the collection unchanged.
C8_AlwaysNotFound ==
    [][\A s \in Slugs :
          (~SlugIn(col, s) /\ GetStep(s))
              => /\ last'.kind = "NotFound" /\ last'.status = 404
                 /\ col' = col]_vars

\* C8 amended: when the store connection is established, getProductBySlug for a
\* slug no stored product has is answered NotFound (404), no other error kind,
\* and leaves the collection unchanged.
C8_NotFoundWhenConnected ==
    [][\A s \in Slugs :
          (db # "None" /\ ~SlugIn(col, s) /\ GetStep(s))
              => /\ last'.kind = "NotFound" /\ last'.status = 404
                 /\ last'.docs = <<>>
                 /\ col' = col /\ pc' = pc]_vars

\* C8 witness: NotFound for a slug missing from a non-empty collection
C8_Witness ==
    /\ last.op = "get_product" /\ last.kind = "NotFound" /\ last.status = 404
    /\ Len(col) > 0 /\ ~SlugIn(col, last.slug)

\* C9 as stated: listProducts never returns more than `limit` records, for
\* every integer limit the endpoint accepts, zero and negative included.
C9_NeverMoreThanLimit ==
    (last.op = "list_products" /\ last.kind = "ok" /\ last.limit.t = "num")
        => Len(last.docs) <= last.limit.n

\* the store identifier of document d renamed to text `id`
Renamed(d) ==
    [f \in (DOMAIN d \ {"_id"}) \cup {"id"} |-> IF f = "id" THEN Str(HexOf[d["_id"].n]) ELSE d[f]]

\* a list_products step with query parameter q
ListStep(q) ==
    /\ last'.op = "list_products"
    /\ last'.limit = (IF q = Absent THEN Num(DefaultLimit) ELSE q)
    /\ \E h \in Handlers, k \in 0..Len(col) : list_products(h, q, k)

\* C9 amended: on a connected store listProducts never fails; for a positive
\* limit (the default 20 when absent) it returns at most `limit` records, and
\* all n of them when n <= limit; every returned record is a stored record
\* with the store identifier renamed to text `id`. For a limit of zero, a
\* negative or a null limit the count is not bounded by `limit`.
C9_PositiveLimitBounds ==
    [][\A q \in Limits :
          (db # "None" /\ ListStep(q))
              => LET limit == IF q = Absent THEN DefaultLimit ELSE q.n
                     positive == q = Absent \/ (q.t = "num" /\ q.n > 0)
                 IN /\ last'.kind = "ok" /\ last'.status = 200
                    /\ col' = col /\ pc' = pc
                    /\ positive => Len(last'.docs) <= limit
                    /\ (positive /\ Len(col) <= limit)
                          => last'.docs = [i \in 1..Len(col) |-> Renamed(col[i])]
                    /\ \A i \in 1..Len(last'.docs) :
                          /\ i <= Len(col)
                          /\ last'.docs[i] = Renamed(col[i])
                          /\ "_id" \notin DOMAIN last'.docs[i]]_vars

\* C9 witness: limit 1 cut a longer collection down to one record
C9_Witness ==
    /\ last.op = "list_products" /\ last.kind = "ok" /\ last.limit = Num(1)
    /\ Len(last.docs) = 1 /\ Len(col) >= 2

StorageOps == {"list_products", "get_product", "create_product", "seed_demo_products"}

\* C10: with the connection handle None, every storage-dependent operation is
\* answered StorageUnavailable (a server error), nothing is stored, and the
\* schema endpoint still succeeds.
C10_DegradedStorageUnavailable ==
    db = "None"
        => /\ col = <<>>
           /\ last.op \in StorageOps
                 => last.kind = "StorageUnavailable" /\ last.status = 500
           /\ last.op = "get_schema"
                 => last.kind = "ok" /\ last.status = 200 /\ last.models = {"product"}

====
